---- MODULE Spec2Model ----
(***************************************************************************)
(* State-machine model of parsd's virtual machines (vm/pars.go, vm/evm.go, *)
(* vm/session.go), the messenger (messaging/messenger.go) and the storage  *)
(* node (storage/node.go).                                                 *)
(*                                                                         *)
(* Go values are modelled as follows: a nil pointer, a nil error and an    *)
(* absent result are NIL; a []byte is a sequence of bytes, the nil slice   *)
(* being the empty sequence; an error is the string of its kind.           *)
(*                                                                         *)
(* Besides the program's own fields the model keeps history variables that *)
(* only record what was called and what the call returned: ret (the last   *)
(* call and its result), lastLife, accepted, stored, closedOK.  No update  *)
(* of the program's state reads them; guards read them only to bound the   *)
(* exploration.                                                            *)
(*                                                                         *)
(* sessionvm.VM, ids.FromString (github.com/luxfi/session, luxfi/ids) are  *)
(* libraries the SessionProvider calls; their source is not part of the    *)
(* node's tree, and the VM* operators state their documented contract.     *)
(***************************************************************************)
EXTENDS Integers, Sequences, FiniteSets, TLC

NIL == "nil"

\* ---- bounds of the exploration ----
MaxTime == 2
MaxTTL == 2
MaxMsgs == 2

Recipients == {"r1", "r2"}
Keys == {"k1", "k2"}
Data == {<<7>>, <<8>>, <<7, 8, 9>>}
TTLs == 0..MaxTTL
\* cfg.Storage.MaxSize of the node explored, in bytes
StorageMaxSize == 2

VARIABLES
    p,          \* the ParsVM: [cfg, storage, messenger, running]
    n,          \* the storage.Node p.storage points to: [running]
    m,          \* the messaging.Messenger p.messenger points to: [running]
    e,          \* the EVM: [cfg, running]
    now,        \* the wall clock, in seconds
    ret,        \* history: the last call, its argument and what it returned
    lastLife,   \* history: the last ParsVM lifecycle call that returned
    accepted,   \* history: messages for which ParsVM.SendMessage returned nil
    stored,     \* history: per key, the last Store that returned nil and was
                \* not followed by a Delete of the key
    sessions,   \* the SessionVM behind the SessionProvider: session ID -> status
    closedOK,   \* history: session IDs for which a CloseSession returned nil
    calls,      \* the SessionProvider calls in progress, one per caller
    life,       \* the ParsVM calls in progress, one per caller
    plug,       \* setupPlugins: the plugin directory, the call's inputs, its result
    pd          \* parsd's main: main, its signal goroutine, the luxd child

sessVars == <<sessions, closedOK, calls>>
sysVars == <<life, plug, pd>>

vars == <<p, n, m, e, now, ret, lastLife, accepted, stored, sessions,
          closedOK, calls, life, plug, pd>>

\* A call's record: the operation, its argument, the error and the value it
\* returned, and the time at which it was made.
Call(op, arg, err, val) ==
    [op |-> op, arg |-> arg, err |-> err, val |-> val, at |-> now]

NoCall == Call("none", NIL, NIL, NIL)

\* ---- errors (fmt.Errorf texts) ----
ErrParsVMNotRunning == "ParsVM not running"

\* The callers of the SessionProvider, and a caller with no call in progress.
Callers == {"c1", "c2"}
Idle == [pc |-> "idle", op |-> "none", sessionID |-> NIL, senderID |-> NIL,
         err |-> NIL, val |-> {}, beganBeforeClose |-> FALSE,
         afterClose |-> FALSE]

\* A caller with no ParsVM call in progress.  onStopped records, for a
\* SendMessage or ReceiveMessages that reached the messenger, whether the
\* messenger had been stopped by then.
LifeIdle == [pc |-> "idle", op |-> "none", err |-> NIL, onStopped |-> FALSE]

\* setupPlugins not called, main not started.
NoPlugins == [pc |-> "none"]
NotStarted == [pc |-> "none"]

\* ============================ storage.Node =============================

\* NewNode: keeps the StorageConfig, not running.
NewNode(cfg) == [cfg |-> cfg, running |-> FALSE]

\* Node.Start: n.running = true; return nil
NodeStart(node) == [node EXCEPT !.running = TRUE]

\* Node.Stop: n.running = false
NodeStop(node) == [node EXCEPT !.running = FALSE]

NoRecord == [live |-> FALSE, data |-> <<>>, ttl |-> 0, expiry |-> 0]

\* Node.Store: the body is a TODO; it returns nil whatever the key, the data
\* and the ttl are, and changes no field of the node.
NodeStoreResult(node, key, data, ttl) == NIL

NodeStore(key, data, ttl) ==
    /\ LET err == NodeStoreResult(n, key, data, ttl)
       IN /\ ret' = Call("Store", [key |-> key, data |-> data, ttl |-> ttl], err, NIL)
          /\ stored' = IF err = NIL
                          THEN [stored EXCEPT ![key] =
                                   [live |-> TRUE, data |-> data, ttl |-> ttl,
                                    expiry |-> now + ttl]]
                          ELSE stored
    /\ UNCHANGED <<p, n, m, e, now, lastLife, accepted, sessVars, sysVars>>

\* Node.Retrieve: the body is a TODO; it returns (nil, nil): the nil slice and
\* no error.
NodeRetrieveResult(node, key) == [data |-> <<>>, err |-> NIL]

NodeRetrieve(key) ==
    /\ LET r == NodeRetrieveResult(n, key)
       IN ret' = Call("Retrieve", key, r.err, r.data)
    /\ UNCHANGED <<p, n, m, e, now, lastLife, accepted, stored, sessVars, sysVars>>

\* A Delete that fails on a key with no record to delete.
NodeDeleteResultStrict(node, key) ==
    IF stored[key].live /\ now < stored[key].expiry THEN NIL ELSE "NotFound"

\* Node.Delete: the body is a TODO; it returns nil.
NodeDeleteResult(node, key) == NIL

\* ret.val records what the history held for the key when Delete was called.
NodeDelete(key) ==
    /\ LET err == NodeDeleteResult(n, key)
       IN /\ ret' = Call("Delete", key, err, stored[key])
          /\ stored' = IF err = NIL THEN [stored EXCEPT ![key] = NoRecord]
                          ELSE stored
    /\ UNCHANGED <<p, n, m, e, now, lastLife, accepted, sessVars, sysVars>>

\* ========================= messaging.Messenger =========================

NewMessenger == [running |-> FALSE]

\* Messenger.Start: m.running = true; return nil
MessengerStart(msgr) == [msgr EXCEPT !.running = TRUE]

\* Messenger.Stop: m.running = false
MessengerStop(msgr) == [msgr EXCEPT !.running = FALSE]

\* Messenger.Send: the body is a TODO; it returns nil whatever msg is and
\* changes nothing.
MessengerSend(msgr, msg) == NIL

\* Messenger.Receive: the body is a TODO; it returns (nil, nil): no messages,
\* no error.
MessengerReceive(msgr, sessionID) == [msgs |-> {}, err |-> NIL]

\* =============================== ParsVM ================================

\* A NewParsVM that builds the enabled VM without its messenger.
NewParsVMNoMessenger(enabled) ==
    [cfg |-> [Enabled |-> enabled], storage |-> IF enabled THEN "n" ELSE NIL,
     messenger |-> NIL, running |-> FALSE]

\* NewParsVM: a disabled VM gets neither a storage node nor a messenger.
NewParsVM(enabled) ==
    IF ~enabled
      THEN [cfg |-> [Enabled |-> FALSE], storage |-> NIL, messenger |-> NIL,
            running |-> FALSE]
      ELSE [cfg |-> [Enabled |-> TRUE], storage |-> "n", messenger |-> "m",
            running |-> FALSE]

\* A Start without the cfg.Enabled gate.
ParsVMStartUngated ==
    /\ n' = IF p.storage # NIL THEN NodeStart(n) ELSE n
    /\ m' = IF p.messenger # NIL THEN MessengerStart(m) ELSE m
    /\ p' = [p EXCEPT !.running = TRUE]
    /\ ret' = Call("Start", NIL, NIL, NIL)
    /\ lastLife' = "Start"
    /\ UNCHANGED <<e, now, accepted, stored, sessVars, sysVars>>

\* A Start that marks the VM running without starting the storage node.
ParsVMStartSkipsStorage ==
    /\ IF ~p.cfg.Enabled
         THEN UNCHANGED <<p, n, m>>
         ELSE /\ n' = n
              /\ m' = IF p.messenger # NIL THEN MessengerStart(m) ELSE m
              /\ p' = [p EXCEPT !.running = TRUE]
    /\ ret' = Call("Start", NIL, NIL, NIL)
    /\ lastLife' = "Start"
    /\ UNCHANGED <<e, now, accepted, stored, sessVars, sysVars>>

\* ParsVM.Start
ParsVMStart ==
    /\ IF ~p.cfg.Enabled
         THEN UNCHANGED <<p, n, m>>
         ELSE /\ n' = IF p.storage # NIL THEN NodeStart(n) ELSE n
              /\ m' = IF p.messenger # NIL THEN MessengerStart(m) ELSE m
              /\ p' = [p EXCEPT !.running = TRUE]
    /\ ret' = Call("Start", NIL, NIL, NIL)
    /\ lastLife' = "Start"
    /\ UNCHANGED <<e, now, accepted, stored, sessVars, sysVars>>

\* A Stop that stops the components and forgets p.running = false.
ParsVMStopKeepsRunning ==
    /\ p' = p
    /\ m' = IF p.messenger # NIL THEN MessengerStop(m) ELSE m
    /\ n' = IF p.storage # NIL THEN NodeStop(n) ELSE n
    /\ ret' = Call("Stop", NIL, NIL, NIL)
    /\ lastLife' = "Stop"
    /\ UNCHANGED <<e, now, accepted, stored, sessVars, sysVars>>

\* ParsVM.Stop
ParsVMStop ==
    /\ p' = [p EXCEPT !.running = FALSE]
    /\ m' = IF p.messenger # NIL THEN MessengerStop(m) ELSE m
    /\ n' = IF p.storage # NIL THEN NodeStop(n) ELSE n
    /\ ret' = Call("Stop", NIL, NIL, NIL)
    /\ lastLife' = "Stop"
    /\ UNCHANGED <<e, now, accepted, stored, sessVars, sysVars>>

HealthStatus(healthy, message) == [Healthy |-> healthy, Message |-> message]

\* A Health that tests p.running before cfg.Enabled.
ParsVMHealthRunningFirst ==
    IF ~p.running THEN HealthStatus(FALSE, "not running")
    ELSE IF ~p.cfg.Enabled THEN HealthStatus(TRUE, "disabled")
    ELSE HealthStatus(TRUE, "")

\* ParsVM.Health
ParsVMHealth ==
    IF ~p.cfg.Enabled THEN HealthStatus(TRUE, "disabled")
    ELSE IF ~p.running THEN HealthStatus(FALSE, "not running")
    ELSE HealthStatus(TRUE, "")

\* The messages a caller hands to SendMessage: the next unused ID, any
\* recipient, the current time as Timestamp, any positive TTL.
Messages ==
    [ID : {Cardinality(accepted) + 1}, RecipientID : Recipients,
     Timestamp : {now}, TTL : 1..MaxTTL]

\* A SendMessage that delegates without looking at p.running.
ParsVMSendMessageUnchecked(msg) ==
    /\ msg.ID <= MaxMsgs
    /\ LET err == MessengerSend(m, msg)
       IN /\ ret' = Call("SendMessage", msg, err, NIL)
          /\ accepted' = IF err = NIL THEN accepted \cup {msg} ELSE accepted
    /\ UNCHANGED <<p, n, m, e, now, lastLife, stored, sessVars, sysVars>>

\* ParsVM.SendMessage.  p.messenger.Send is called on the pointer as it is:
\* Messenger.Send never reads its receiver.
ParsVMSendMessage(msg) ==
    /\ msg.ID <= MaxMsgs
    /\ LET err == IF ~p.running THEN ErrParsVMNotRunning
                  ELSE MessengerSend(m, msg)
       IN /\ ret' = Call("SendMessage", msg, err, NIL)
          /\ accepted' = IF err = NIL THEN accepted \cup {msg} ELSE accepted
    /\ UNCHANGED <<p, n, m, e, now, lastLife, stored, sessVars, sysVars>>

\* ParsVM.ReceiveMessages
ParsVMReceiveMessages(sessionID) ==
    /\ LET r == IF ~p.running THEN [msgs |-> {}, err |-> ErrParsVMNotRunning]
                ELSE MessengerReceive(m, sessionID)
       IN ret' = Call("ReceiveMessages", sessionID, r.err, r.msgs)
    /\ UNCHANGED <<p, n, m, e, now, lastLife, accepted, stored, sessVars, sysVars>>

\* ================================= EVM ==================================

\* NewEVM: both branches build the same value.
NewEVM(enabled) == [cfg |-> [Enabled |-> enabled], running |-> FALSE]

\* EVM.Start
EVMStart ==
    /\ e' = IF ~e.cfg.Enabled THEN e ELSE [e EXCEPT !.running = TRUE]
    /\ ret' = Call("EVM.Start", NIL, NIL, NIL)
    /\ UNCHANGED <<p, n, m, now, lastLife, accepted, stored, sessVars, sysVars>>

\* A Stop that leaves e.running as it was.
EVMStopKeepsRunning ==
    /\ e' = e
    /\ ret' = Call("EVM.Stop", NIL, NIL, NIL)
    /\ UNCHANGED <<p, n, m, now, lastLife, accepted, stored, sessVars, sysVars>>

\* EVM.Stop
EVMStop ==
    /\ e' = [e EXCEPT !.running = FALSE]
    /\ ret' = Call("EVM.Stop", NIL, NIL, NIL)
    /\ UNCHANGED <<p, n, m, now, lastLife, accepted, stored, sessVars, sysVars>>

\* EVM.Health
EVMHealth ==
    IF ~e.cfg.Enabled THEN HealthStatus(TRUE, "disabled")
    ELSE IF ~e.running THEN HealthStatus(FALSE, "not running")
    ELSE HealthStatus(TRUE, "")

\* =========================== SessionProvider ===========================

\* Identifiers as the callers write them.  ids.FromString accepts the
\* well-formed ones and fails on the others.
ParticipantIDs == {"id1", "id2"}
SessionIDs == {"sid0", "sid1", "sid2", "sid12"}
Malformed == "bad"
IDStrings == ParticipantIDs \cup SessionIDs \cup {Malformed}

IdsFromString(str) ==
    IF str = Malformed THEN [id |-> NIL, err |-> "invalid ID"]
    ELSE [id |-> str, err |-> NIL]

ErrInvalidSessionID == "invalid session ID"
ErrInvalidSenderID == "invalid sender ID"
ErrInvalidParticipantID == "invalid participant ID"
ErrSessionNotFound == "NotFound"
ErrSessionClosed == "SessionClosed"
ErrSessionNotActive == "SessionNotActive"
ErrSessionExists == "SessionExists"

\* The value a session operation returns: None for a nil pointer, Some(x)
\* for a pointer to x.
None == {}
Some(x) == {x}

\* ---- the SessionVM (sessionvm.VM of github.com/luxfi/session) ----
\* Each operation takes the VM's sessions and yields the sessions after it,
\* the error and the value it returns; it acts on the sessions as one
\* atomic unit.

\* The session identifier is a function of the set of participants.
DeriveSessionID(participants) ==
    LET ps == {participants[i] : i \in DOMAIN participants}
    IN IF ps = {} THEN "sid0"
       ELSE IF ps = {"id1"} THEN "sid1"
       ELSE IF ps = {"id2"} THEN "sid2"
       ELSE "sid12"

\* sessionvm.VM.CreateSession: a new session is Pending, and Active at once
\* when it has exactly two participants.
VMCreateSession(ss, participants, publicKeys) ==
    LET sid == DeriveSessionID(participants)
    IN IF ss[sid] # "none"
         THEN [sessions |-> ss, err |-> ErrSessionExists, val |-> None]
         ELSE [sessions |-> [ss EXCEPT ![sid] =
                                IF Len(participants) = 2 THEN "Active" ELSE "Pending"],
               err |-> NIL,
               val |-> Some([ID |-> sid, Participants |-> participants,
                             PublicKeys |-> publicKeys])]

\* A SendMessage that does not look at the session's status.
VMSendMessageUnchecked(ss, sid, sender) ==
    IF ss[sid] = "none"
      THEN [sessions |-> ss, err |-> ErrSessionNotFound, val |-> None]
      ELSE [sessions |-> ss, err |-> NIL,
            val |-> Some([SessionID |-> sid, SenderID |-> sender])]

\* sessionvm.VM.SendMessage: wraps the inputs into a Message when the
\* session is Active.
VMSendMessage(ss, sid, sender) ==
    IF ss[sid] = "none"
      THEN [sessions |-> ss, err |-> ErrSessionNotFound, val |-> None]
    ELSE IF ss[sid] = "Closed"
      THEN [sessions |-> ss, err |-> ErrSessionClosed, val |-> None]
    ELSE IF ss[sid] # "Active"
      THEN [sessions |-> ss, err |-> ErrSessionNotActive, val |-> None]
    ELSE [sessions |-> ss, err |-> NIL,
          val |-> Some([SessionID |-> sid, SenderID |-> sender])]

\* A CloseSession that reports success and leaves the status as it was.
VMCloseSessionKeepsStatus(ss, sid) ==
    IF ss[sid] = "none"
      THEN [sessions |-> ss, err |-> ErrSessionNotFound, val |-> None]
      ELSE [sessions |-> ss, err |-> NIL, val |-> None]

\* sessionvm.VM.CloseSession: the session becomes Closed; closing a Closed
\* session succeeds and changes nothing.
VMCloseSession(ss, sid) ==
    IF ss[sid] = "none"
      THEN [sessions |-> ss, err |-> ErrSessionNotFound, val |-> None]
      ELSE [sessions |-> [ss EXCEPT ![sid] = "Closed"], err |-> NIL, val |-> None]

\* ---- the SessionProvider's methods ----

\* A validation that looks at the first participant ID only.
FirstMalformedHeadOnly(participantIDs) ==
    IF participantIDs # <<>> /\ IdsFromString(participantIDs[1]).err # NIL
      THEN 1 ELSE 0

\* The index of the first malformed participant ID, 0 when there is none:
\* the loop of CreateSession returns at the first ids.FromString error.
FirstMalformed(participantIDs) ==
    LET bad == {i \in DOMAIN participantIDs :
                   IdsFromString(participantIDs[i]).err # NIL}
    IN IF bad = {} THEN 0 ELSE CHOOSE i \in bad : \A j \in bad : i <= j

\* SessionProvider.CreateSession as a function of the VM's sessions.
\* request is what the method passes to sp.vm.CreateSession, None when it
\* returns before calling the VM.
CreateSessionResult(ss, participantIDs, publicKeys) ==
    IF FirstMalformed(participantIDs) # 0
      THEN [sessions |-> ss, err |-> ErrInvalidParticipantID, val |-> None,
            request |-> None]
      ELSE LET participants ==
                   [i \in DOMAIN participantIDs |-> IdsFromString(participantIDs[i]).id]
           IN VMCreateSession(ss, participants, publicKeys)
                @@ [request |-> Some([participants |-> participants,
                                      publicKeys |-> publicKeys])]

SessionProviderCreateSession(participantIDs, publicKeys) ==
    /\ LET r == CreateSessionResult(sessions, participantIDs, publicKeys)
       IN /\ sessions' = r.sessions
          /\ ret' = Call("CreateSession",
                         [participantIDs |-> participantIDs, publicKeys |-> publicKeys],
                         r.err, r.val) @@ [request |-> r.request]
    /\ UNCHANGED <<p, n, m, e, now, lastLife, accepted, stored, closedOK, calls, sysVars>>

\* SessionProvider.CreateSecureSession as a function of the VM's sessions:
\* the VM is given an empty participant list and the two KEM public keys,
\* and its error comes back wrapped.
ErrFailedToCreateSession == "failed to create session: SessionExists"

CreateSecureSessionResult(ss, localKEMPublicKey, remoteKEMPublicKey) ==
    LET participants == <<>>
        publicKeys == <<localKEMPublicKey, remoteKEMPublicKey>>
        r == VMCreateSession(ss, participants, publicKeys)
    IN [sessions |-> r.sessions,
        err |-> IF r.err # NIL THEN ErrFailedToCreateSession ELSE NIL,
        val |-> r.val,
        request |-> Some([participants |-> participants, publicKeys |-> publicKeys])]

SessionProviderCreateSecureSession(localKEMPublicKey, remoteKEMPublicKey) ==
    /\ LET r == CreateSecureSessionResult(sessions, localKEMPublicKey,
                                          remoteKEMPublicKey)
       IN /\ sessions' = r.sessions
          /\ ret' = Call("CreateSecureSession",
                         [localKEMPublicKey |-> localKEMPublicKey,
                          remoteKEMPublicKey |-> remoteKEMPublicKey],
                         r.err, r.val) @@ [request |-> r.request]
    /\ UNCHANGED <<p, n, m, e, now, lastLife, accepted, stored, closedOK, calls, sysVars>>

\* A parse that hands the sender ID on without validating it.
SendMessageParseNoSender(sessionID, senderID) ==
    IF IdsFromString(sessionID).err # NIL THEN ErrInvalidSessionID
    ELSE NIL

\* SessionProvider.SendMessage up to the call of the VM: the two
\* ids.FromString calls, session ID first.  NIL when both parse.
SendMessageParse(sessionID, senderID) ==
    IF IdsFromString(sessionID).err # NIL THEN ErrInvalidSessionID
    ELSE IF IdsFromString(senderID).err # NIL THEN ErrInvalidSenderID
    ELSE NIL

\* SessionProvider.SendMessage as a function of the VM's sessions.  The
\* ciphertext and the signature are handed to the VM untouched.
SendMessageResult(ss, sessionID, senderID) ==
    LET perr == SendMessageParse(sessionID, senderID)
    IN IF perr # NIL THEN [sessions |-> ss, err |-> perr, val |-> None]
       ELSE VMSendMessage(ss, sessionID, senderID)

SessionProviderSendMessage(sessionID, senderID) ==
    /\ LET r == SendMessageResult(sessions, sessionID, senderID)
       IN /\ sessions' = r.sessions
          /\ ret' = Call("SessionSendMessage",
                         [sessionID |-> sessionID, senderID |-> senderID],
                         r.err, r.val)
    /\ UNCHANGED <<p, n, m, e, now, lastLife, accepted, stored, closedOK, calls, sysVars>>

\* SessionProvider.CloseSession up to the call of the VM.
CloseSessionParse(sessionID) ==
    IF IdsFromString(sessionID).err # NIL THEN ErrInvalidSessionID ELSE NIL

\* SessionProvider.CloseSession as a function of the VM's sessions.
CloseSessionResult(ss, sessionID) ==
    LET perr == CloseSessionParse(sessionID)
    IN IF perr # NIL THEN [sessions |-> ss, err |-> perr, val |-> None]
       ELSE VMCloseSession(ss, sessionID)

\* ret.val records whether a CloseSession of this ID had returned nil before.
SessionProviderCloseSession(sessionID) ==
    /\ LET r == CloseSessionResult(sessions, sessionID)
       IN /\ sessions' = r.sessions
          /\ ret' = Call("CloseSession", sessionID, r.err, sessionID \in closedOK)
          /\ closedOK' = IF r.err = NIL THEN closedOK \cup {sessionID} ELSE closedOK
    /\ UNCHANGED <<p, n, m, e, now, lastLife, accepted, stored, calls, sysVars>>

\* ================================ clock =================================

Tick ==
    /\ now < MaxTime
    /\ now' = now + 1
    /\ UNCHANGED <<p, n, m, e, ret, lastLife, accepted, stored, sessVars, sysVars>>

\* ============================ specification ============================

Init ==
    /\ \E enabled \in BOOLEAN : p = NewParsVM(enabled)
    /\ n = NewNode([MaxSize |-> StorageMaxSize])
    /\ m = NewMessenger
    /\ \E enabled \in BOOLEAN : e = NewEVM(enabled)
    /\ now = 0
    /\ ret = NoCall
    /\ lastLife = "none"
    /\ accepted = {}
    /\ stored = [key \in Keys |-> NoRecord]
    /\ sessions = [sid \in SessionIDs |-> "none"]
    /\ closedOK = {}
    /\ calls = [c \in Callers |-> Idle]
    /\ life = [c \in Callers |-> LifeIdle]
    /\ plug = NoPlugins
    /\ pd = NotStarted

Next ==
    \/ ParsVMStart
    \/ ParsVMStop
    \/ \E msg \in Messages : ParsVMSendMessage(msg)
    \/ \E sessionID \in Recipients : ParsVMReceiveMessages(sessionID)
    \/ EVMStart
    \/ EVMStop
    \/ Tick

Spec == Init /\ [][Next]_vars

\* A ParsVM and an EVM built with the same Enabled flag and driven through
\* the same sequence of lifecycle calls: every Start or Stop of the ParsVM
\* is followed by the same call on the EVM before anything else is called.
InitContract == Init /\ p.cfg.Enabled = e.cfg.Enabled

ParsVMTurn == ret.op \notin {"Start", "Stop"}

NextContract ==
    \/ ParsVMTurn /\ ParsVMStart
    \/ ParsVMTurn /\ ParsVMStop
    \/ ret.op = "Start" /\ EVMStart
    \/ ret.op = "Stop" /\ EVMStop
    \/ ParsVMTurn /\ \E msg \in Messages : ParsVMSendMessage(msg)
    \/ ParsVMTurn /\ \E sessionID \in Recipients : ParsVMReceiveMessages(sessionID)
    \/ Tick

SpecContract == InitContract /\ [][NextContract]_vars

\* The storage node on its own: Store, Retrieve and Delete calls as time passes.
NextStorage ==
    \/ \E key \in Keys, data \in Data, ttl \in TTLs : NodeStore(key, data, ttl)
    \/ \E key \in Keys : NodeRetrieve(key)
    \/ \E key \in Keys : NodeDelete(key)
    \/ Tick

\* The node is the one an enabled ParsVM holds.
InitStorage == Init /\ p.cfg.Enabled /\ e.cfg.Enabled

SpecStorage == InitStorage /\ [][NextStorage]_vars

\* The SessionProvider, one call at a time.
ParticipantLists ==
    {<<>>} \cup {<<a>> : a \in ParticipantIDs \cup {Malformed}}
           \cup {<<a, b>> : a, b \in ParticipantIDs \cup {Malformed}}
KeyLists == {<<>>, <<"pkA">>, <<"pkA", "pkB">>}
KEMPublicKeys == {"pkA", "pkB"}
SessionIDStrings == SessionIDs \cup {Malformed}
SenderIDStrings == ParticipantIDs \cup {Malformed}

NextSession ==
    \/ \E ids \in ParticipantLists, keys \in KeyLists :
           SessionProviderCreateSession(ids, keys)
    \/ \E localKEMPublicKey \in KEMPublicKeys, remoteKEMPublicKey \in KEMPublicKeys :
           SessionProviderCreateSecureSession(localKEMPublicKey, remoteKEMPublicKey)
    \/ \E sessionID \in SessionIDStrings, senderID \in SenderIDStrings :
           SessionProviderSendMessage(sessionID, senderID)
    \/ \E sessionID \in SessionIDStrings : SessionProviderCloseSession(sessionID)

InitSession == Init /\ p.cfg.Enabled /\ e.cfg.Enabled

SpecSession == InitSession /\ [][NextSession]_vars

\* The SessionProvider under concurrent callers.  A SendMessage or a
\* CloseSession is three steps: the caller enters the method and parses the
\* identifiers (local to the call), the method calls the VM, and the call
\* returns to the caller, who then has observed its result.

\* SendMessage, entry to the VM call: returns at once when ids.FromString fails.
BeginSendMessage(c, sessionID, senderID) ==
    /\ calls[c].pc = "idle"
    /\ LET perr == SendMessageParse(sessionID, senderID)
       IN calls' = [calls EXCEPT ![c] =
              [pc |-> IF perr # NIL THEN "returning" ELSE "vm",
               op |-> "SendMessage", sessionID |-> sessionID,
               senderID |-> senderID, err |-> perr, val |-> None,
               beganBeforeClose |-> sessionID \notin closedOK,
               afterClose |-> FALSE]]
    /\ UNCHANGED <<p, n, m, e, now, ret, lastLife, accepted, stored, sessions,
                   closedOK, sysVars>>

\* SendMessage, the call sp.vm.SendMessage.  afterClose records whether a
\* CloseSession of the session had already returned nil to some caller.
VMStepSendMessage(c) ==
    /\ calls[c].pc = "vm" /\ calls[c].op = "SendMessage"
    /\ LET r == VMSendMessage(sessions, calls[c].sessionID, calls[c].senderID)
       IN /\ sessions' = r.sessions
          /\ calls' = [calls EXCEPT ![c].pc = "returning", ![c].err = r.err,
                                    ![c].val = r.val,
                                    ![c].afterClose = calls[c].sessionID \in closedOK]
    /\ UNCHANGED <<p, n, m, e, now, ret, lastLife, accepted, stored, closedOK, sysVars>>

\* CloseSession, entry to the VM call.
BeginCloseSession(c, sessionID) ==
    /\ calls[c].pc = "idle"
    /\ LET perr == CloseSessionParse(sessionID)
       IN calls' = [calls EXCEPT ![c] =
              [pc |-> IF perr # NIL THEN "returning" ELSE "vm",
               op |-> "CloseSession", sessionID |-> sessionID,
               senderID |-> NIL, err |-> perr, val |-> None,
               beganBeforeClose |-> sessionID \notin closedOK,
               afterClose |-> FALSE]]
    /\ UNCHANGED <<p, n, m, e, now, ret, lastLife, accepted, stored, sessions,
                   closedOK, sysVars>>

\* CloseSession, the call sp.vm.CloseSession.
VMStepCloseSession(c) ==
    /\ calls[c].pc = "vm" /\ calls[c].op = "CloseSession"
    /\ LET r == VMCloseSession(sessions, calls[c].sessionID)
       IN /\ sessions' = r.sessions
          /\ calls' = [calls EXCEPT ![c].pc = "returning", ![c].err = r.err,
                                    ![c].afterClose = calls[c].sessionID \in closedOK]
    /\ UNCHANGED <<p, n, m, e, now, ret, lastLife, accepted, stored, closedOK, sysVars>>

\* The call returns: its caller observes the result.
ReturnCall(c) ==
    /\ calls[c].pc = "returning"
    /\ closedOK' = IF calls[c].op = "CloseSession" /\ calls[c].err = NIL
                      THEN closedOK \cup {calls[c].sessionID}
                      ELSE closedOK
    /\ calls' = [calls EXCEPT ![c] = Idle]
    /\ UNCHANGED <<p, n, m, e, now, ret, lastLife, accepted, stored, sessions, sysVars>>

ConcSessionIDs == {"sid1", "sid12", Malformed}
ConcSenderIDs == {"id1", Malformed}

NextSessionConc ==
    \/ \E ids \in {<<"id1">>, <<"id1", "id2">>} :
           SessionProviderCreateSession(ids, <<"pkA", "pkB">>)
    \/ \E c \in Callers, sessionID \in ConcSessionIDs, senderID \in ConcSenderIDs :
           BeginSendMessage(c, sessionID, senderID)
    \/ \E c \in Callers : VMStepSendMessage(c)
    \/ \E c \in Callers, sessionID \in ConcSessionIDs : BeginCloseSession(c, sessionID)
    \/ \E c \in Callers : VMStepCloseSession(c)
    \/ \E c \in Callers : ReturnCall(c)

SpecSessionConc == InitSession /\ [][NextSessionConc]_vars

\* The ParsVM under concurrent callers.  No method of ParsVM, Node or
\* Messenger takes a lock, so a call is the sequence of its reads and writes
\* of the running flags, and the calls of different callers interleave
\* between any two of them.
lifeRest == <<e, now, ret, lastLife, accepted, stored, sessVars, plug, pd>>

\* ParsVM.Start, the cfg.Enabled test (cfg is never written after NewParsVM).
LifeBeginStart(c) ==
    /\ life[c].pc = "idle"
    /\ life' = [life EXCEPT ![c] =
           [LifeIdle EXCEPT !.op = "Start",
               !.pc = IF ~p.cfg.Enabled THEN "returning" ELSE "start.storage"]]
    /\ UNCHANGED <<p, n, m, lifeRest>>

\* ParsVM.Start, p.storage.Start(ctx)
LifeStartStorage(c) ==
    /\ life[c].pc = "start.storage"
    /\ n' = IF p.storage # NIL THEN NodeStart(n) ELSE n
    /\ life' = [life EXCEPT ![c].pc = "start.messenger"]
    /\ UNCHANGED <<p, m, lifeRest>>

\* ParsVM.Start, p.messenger.Start(ctx)
LifeStartMessenger(c) ==
    /\ life[c].pc = "start.messenger"
    /\ m' = IF p.messenger # NIL THEN MessengerStart(m) ELSE m
    /\ life' = [life EXCEPT ![c].pc = "start.running"]
    /\ UNCHANGED <<p, n, lifeRest>>

\* ParsVM.Start, p.running = true
LifeStartRunning(c) ==
    /\ life[c].pc = "start.running"
    /\ p' = [p EXCEPT !.running = TRUE]
    /\ life' = [life EXCEPT ![c].pc = "returning"]
    /\ UNCHANGED <<n, m, lifeRest>>

\* ParsVM.Stop, p.running = false
LifeBeginStop(c) ==
    /\ life[c].pc = "idle"
    /\ p' = [p EXCEPT !.running = FALSE]
    /\ life' = [life EXCEPT ![c] =
           [LifeIdle EXCEPT !.op = "Stop", !.pc = "stop.messenger"]]
    /\ UNCHANGED <<n, m, lifeRest>>

\* ParsVM.Stop, p.messenger.Stop()
LifeStopMessenger(c) ==
    /\ life[c].pc = "stop.messenger"
    /\ m' = IF p.messenger # NIL THEN MessengerStop(m) ELSE m
    /\ life' = [life EXCEPT ![c].pc = "stop.storage"]
    /\ UNCHANGED <<p, n, lifeRest>>

\* ParsVM.Stop, p.storage.Stop()
LifeStopStorage(c) ==
    /\ life[c].pc = "stop.storage"
    /\ n' = IF p.storage # NIL THEN NodeStop(n) ELSE n
    /\ life' = [life EXCEPT ![c].pc = "returning"]
    /\ UNCHANGED <<p, m, lifeRest>>

\* ParsVM.SendMessage / ReceiveMessages, the test of p.running.  The message
\* and the session ID play no part in what follows.
LifeBeginDeliver(c, op) ==
    /\ life[c].pc = "idle"
    /\ life' = [life EXCEPT ![c] =
           IF ~p.running
             THEN [LifeIdle EXCEPT !.op = op, !.pc = "returning",
                                   !.err = ErrParsVMNotRunning]
             ELSE [LifeIdle EXCEPT !.op = op, !.pc = "deliver"]]
    /\ UNCHANGED <<p, n, m, lifeRest>>

\* ParsVM.SendMessage / ReceiveMessages, the call p.messenger.Send /
\* p.messenger.Receive.
LifeDeliver(c) ==
    /\ life[c].pc = "deliver"
    /\ life' = [life EXCEPT ![c].pc = "returning",
              ![c].err = IF life[c].op = "SendMessage"
                           THEN MessengerSend(m, NIL)
                           ELSE MessengerReceive(m, NIL).err,
              ![c].onStopped = ~m.running]
    /\ UNCHANGED <<p, n, m, lifeRest>>

\* The call returns to its caller.
LifeReturn(c) ==
    /\ life[c].pc = "returning"
    /\ life' = [life EXCEPT ![c] = LifeIdle]
    /\ UNCHANGED <<p, n, m, lifeRest>>

NextLifeConc ==
    \E c \in Callers :
        \/ LifeBeginStart(c)
        \/ LifeStartStorage(c)
        \/ LifeStartMessenger(c)
        \/ LifeStartRunning(c)
        \/ LifeBeginStop(c)
        \/ LifeStopMessenger(c)
        \/ LifeStopStorage(c)
        \/ \E op \in {"SendMessage", "ReceiveMessages"} : LifeBeginDeliver(c, op)
        \/ LifeDeliver(c)
        \/ LifeReturn(c)

SpecLifeConc == Init /\ [][NextLifeConc]_vars

\* ============================ parsd plugins ============================

\* The two entries of pluginDir that setupPlugins looks after.  An entry is
\* absent, a file (or a link whose target exists) put there by someone
\* else, a dangling link, or the link that setupPlugins made.
PluginIDs == {"EVMID", "SessionVMID"}
Entries == {"absent", "file", "dangling"}
ErrLinkEVM == "failed to link EVM plugin"
ErrLinkSessionVM == "failed to link SessionVM plugin"

plugRest == <<p, n, m, e, now, ret, lastLife, accepted, stored, sessVars, life, pd>>

\* main: os.MkdirAll(pluginDir, 0755) succeeded; the directory holds
\* whatever it held before parsd ran.
MkdirAllPluginDir(dir) ==
    /\ plug.pc = "none"
    /\ plug' = [pc |-> "mkdir", before |-> dir, dir |-> dir, err |-> NIL]
    /\ UNCHANGED plugRest

\* os.Stat follows links: it reports "not exist" for a missing entry and for
\* a dangling link.
StatIsNotExist(entry) == entry \in {"absent", "dangling"}

\* One of the two blocks of setupPlugins: found tells whether findEVM /
\* findSessionVM located a binary, linkOK whether os.Symlink can write into
\* pluginDir.  os.Symlink on an existing name fails with EEXIST, which the
\* block ignores.
SetupOnePlugin(entry, found, linkOK, linkErr) ==
    IF ~StatIsNotExist(entry) THEN [entry |-> entry, err |-> NIL]
    ELSE IF ~found THEN [entry |-> entry, err |-> NIL]
    ELSE IF entry # "absent" THEN [entry |-> entry, err |-> NIL]
    ELSE IF linkOK THEN [entry |-> "symlink", err |-> NIL]
    ELSE [entry |-> entry, err |-> linkErr]

\* setupPlugins
SetupPlugins(evmFound, sessionFound, linkOK) ==
    /\ plug.pc \in {"mkdir", "returned"}
    /\ LET evm == SetupOnePlugin(plug.dir["EVMID"], evmFound, linkOK, ErrLinkEVM)
           session == SetupOnePlugin(plug.dir["SessionVMID"], sessionFound,
                                     linkOK, ErrLinkSessionVM)
       IN  plug' =
             IF evm.err # NIL
               THEN [pc |-> "returned", before |-> plug.dir,
                     dir |-> [plug.dir EXCEPT !["EVMID"] = evm.entry],
                     err |-> evm.err]
               ELSE [pc |-> "returned", before |-> plug.dir,
                     dir |-> [plug.dir EXCEPT !["EVMID"] = evm.entry,
                                              !["SessionVMID"] = session.entry],
                     err |-> session.err]
    /\ UNCHANGED plugRest

NextPlugins ==
    \/ \E dir \in [PluginIDs -> Entries] : MkdirAllPluginDir(dir)
    \/ \E evmFound \in BOOLEAN, sessionFound \in BOOLEAN, linkOK \in BOOLEAN :
          SetupPlugins(evmFound, sessionFound, linkOK)

SpecPlugins == Init /\ [][NextPlugins]_vars

\* ========================= parsd supervising luxd ======================

\* main from signal.Notify on.  pd.sigCh is the number of signals buffered in
\* sigCh, pd.arrived the number of SIGINT / SIGTERM delivered to parsd since
\* registration, pd.early whether one had arrived when cmd.Start returned,
\* pd.luxd the child ("notstarted", "running", "exited" and not yet waited
\* for, "reaped"), pd.outcome how it ended, pd.goroutine the position of the
\* signal goroutine, pd.termSent the number of SIGTERM sent to luxd and
\* pd.exit parsd's exit status once it has exited.
MaxSignals == 2
SigChCap == 1
StartFailedStatus == 1
ExitCodeSignaled == -1
LuxdExitCodes == {0, 1, 2}
NoOutcome == [kind |-> "none", code |-> 0]
LuxdOutcomes ==
    [kind : {"exit"}, code : LuxdExitCodes] \cup {[kind |-> "signal", code |-> 0]}

pdRest == <<p, n, m, e, now, ret, lastLife, accepted, stored, sessVars, life, plug>>

\* exec.ExitError.ExitCode(): the exit code, -1 for a child ended by a signal.
ExitCode(outcome) ==
    IF outcome.kind = "signal" THEN ExitCodeSignaled ELSE outcome.code

\* The status the parent of parsd sees after os.Exit(code): the low 8 bits.
ExitStatus(code) == code % 256

\* sigCh := make(chan os.Signal, 1); signal.Notify(sigCh, SIGINT, SIGTERM)
SignalNotify ==
    /\ pd.pc = "none"
    /\ pd' = [pc |-> "notified", sigCh |-> 0, arrived |-> 0, early |-> FALSE,
              luxd |-> "notstarted", outcome |-> NoOutcome,
              goroutine |-> "none", termSent |-> 0, exit |-> None]
    /\ UNCHANGED pdRest

\* A channel without buffer: the signal is kept only if the goroutine is
\* already waiting for it.
SignalArrivesUnbuffered ==
    /\ pd.pc \in {"notified", "started", "waiting", "waited"}
    /\ pd.arrived < MaxSignals
    /\ pd' = [pd EXCEPT !.arrived = @ + 1,
                        !.goroutine = IF @ = "recv" THEN "signal" ELSE @]
    /\ UNCHANGED pdRest

\* A SIGINT or SIGTERM is delivered to parsd: the runtime puts it into sigCh
\* without blocking, and drops it when the buffer is full.
SignalArrives ==
    /\ pd.pc \in {"notified", "started", "waiting", "waited"}
    /\ pd.arrived < MaxSignals
    /\ pd' = [pd EXCEPT !.arrived = @ + 1,
                        !.sigCh = IF @ < SigChCap THEN @ + 1 ELSE @]
    /\ UNCHANGED pdRest

\* cmd.Start(): luxd runs, or parsd logs the error and exits with status 1.
CmdStart(ok) ==
    /\ pd.pc = "notified"
    /\ pd' = IF ok
               THEN [pd EXCEPT !.pc = "started", !.luxd = "running",
                               !.early = pd.arrived > 0]
               ELSE [pd EXCEPT !.pc = "exited", !.exit = Some(StartFailedStatus)]
    /\ UNCHANGED pdRest

\* go func() { ... }(): the goroutine exists and main goes on to cmd.Wait().
GoFunc ==
    /\ pd.pc = "started"
    /\ pd' = [pd EXCEPT !.pc = "waiting", !.goroutine = "recv"]
    /\ UNCHANGED pdRest

\* The goroutine's <-sigCh.
GoroutineReceive ==
    /\ pd.pc \in {"waiting", "waited"}
    /\ pd.goroutine = "recv"
    /\ pd.sigCh > 0
    /\ pd' = [pd EXCEPT !.sigCh = @ - 1, !.goroutine = "signal"]
    /\ UNCHANGED pdRest

\* The goroutine's cmd.Process.Signal(syscall.SIGTERM): sent to a child not
\* yet waited for, an error (logged) once cmd.Wait has returned.
GoroutineSignal ==
    /\ pd.pc \in {"waiting", "waited"}
    /\ pd.goroutine = "signal"
    /\ pd' = [pd EXCEPT !.goroutine = "done",
                        !.termSent = IF pd.luxd = "reaped" THEN @ ELSE @ + 1]
    /\ UNCHANGED pdRest

\* luxd ends: by itself with some exit code, or ended by a signal (the
\* SIGTERM parsd sent, or one from elsewhere).
LuxdExits(outcome) ==
    /\ pd.pc \in {"started", "waiting"}
    /\ pd.luxd = "running"
    /\ pd' = [pd EXCEPT !.luxd = "exited", !.outcome = outcome]
    /\ UNCHANGED pdRest

\* cmd.Wait() returns once luxd has ended.
CmdWait ==
    /\ pd.pc = "waiting"
    /\ pd.luxd = "exited"
    /\ pd' = [pd EXCEPT !.pc = "waited", !.luxd = "reaped"]
    /\ UNCHANGED pdRest

\* The end of main: it returns (status 0) when Wait returned nil, and calls
\* os.Exit(exitErr.ExitCode()) on an *exec.ExitError.  The goroutine dies
\* with the process.
MainExit ==
    /\ pd.pc = "waited"
    /\ pd' = [pd EXCEPT !.pc = "exited",
                 !.exit = IF pd.outcome.kind = "exit" /\ pd.outcome.code = 0
                            THEN Some(0)
                            ELSE Some(ExitStatus(ExitCode(pd.outcome)))]
    /\ UNCHANGED pdRest

NextMain ==
    \/ CmdStart(TRUE) \/ CmdStart(FALSE)
    \/ GoFunc
    \/ CmdWait
    \/ MainExit

NextGoroutine ==
    \/ GoroutineReceive
    \/ GoroutineSignal

NextParsd ==
    \/ SignalNotify
    \/ SignalArrives
    \/ NextMain
    \/ NextGoroutine
    \/ \E outcome \in LuxdOutcomes : LuxdExits(outcome)

\* The Go scheduler lets main and the goroutine run while they can; signals
\* and the end of luxd come when they come.
SpecParsd ==
    /\ Init /\ [][NextParsd]_vars
    /\ WF_vars(SignalNotify) /\ WF_vars(NextMain) /\ WF_vars(NextGoroutine)

\* =============================== claims ================================

ErrNotFound == "NotFound"
ErrCapacityExceeded == "CapacityExceeded"

\* The record of key is live at time t: stored, not deleted, not yet expired.
LiveAt(key, t) == stored[key].live /\ t < stored[key].expiry

RECURSIVE SizeOf(_)
\* The total size of the records of the keys in ks that are live at ret.at.
SizeOf(ks) ==
    IF ks = {} THEN 0
    ELSE LET key == CHOOSE x \in ks : TRUE
         IN (IF LiveAt(key, ret.at) THEN Len(stored[key].data) ELSE 0)
              + SizeOf(ks \ {key})

\* C1 (as claimed): a Retrieve(k) made while the record of the last
\* successful Store(k, d, ttl), ttl > 0, is neither deleted nor expired
\* succeeds and returns exactly d.
C1_RetrieveReturnsStored ==
    (ret.op = "Retrieve" /\ LiveAt(ret.arg, ret.at) /\ stored[ret.arg].ttl > 0)
        => (ret.err = NIL /\ ret.val = stored[ret.arg].data)

\* C2 (as claimed): a Retrieve(k) returns the NotFound error whenever k has
\* no live record: never stored, deleted since its last Store, or expired.
C2_RetrieveNotFound ==
    (ret.op = "Retrieve" /\ ~LiveAt(ret.arg, ret.at)) => ret.err = ErrNotFound

\* C10 (as claimed): a Store that would take the total size of the live
\* records above cfg.MaxSize is rejected with CapacityExceeded, and the
\* total size of the records accepted never exceeds cfg.MaxSize.
C10_CapacityEnforced ==
    /\ (ret.op = "Store"
          /\ SizeOf(Keys \ {ret.arg.key}) + Len(ret.arg.data) > n.cfg.MaxSize)
            => ret.err = ErrCapacityExceeded
    /\ SizeOf(Keys) <= n.cfg.MaxSize

\* C11: Delete(k) always returns nil, whether k has a live record, was never
\* stored, was already deleted or has expired, and it changes neither the
\* node nor the record of any key other than k.
C11_DeleteIdempotent ==
    /\ [](ret.op = "Delete" => ret.err = NIL)
    /\ [][(ret'.op = "Delete" /\ now' = now) =>
             /\ n' = n
             /\ \A key \in Keys \ {ret'.arg} : stored'[key] = stored[key]]_vars

\* C11 witness: a Delete of a key whose record had expired returned nil
\* while the other key held a live record.
C11_Witness ==
    /\ ret.op = "Delete" /\ ret.err = NIL
    /\ ret.val.live /\ ret.at >= ret.val.expiry
    /\ \E key \in Keys \ {ret.arg} : LiveAt(key, ret.at)

\* C12: a CreateSession handed a malformed participant ID, at any position
\* of the list, returns the invalid-participant error and no session, and
\* leaves the VM's sessions as they were (the VM is not called).
C12_MalformedParticipantRejected ==
    /\ [](ret.op = "CreateSession"
            /\ (\E i \in DOMAIN ret.arg.participantIDs :
                   ret.arg.participantIDs[i] = Malformed)
          => (ret.err = ErrInvalidParticipantID /\ ret.val = None))
    /\ [][(ret'.op = "CreateSession"
            /\ \E i \in DOMAIN ret'.arg.participantIDs :
                   ret'.arg.participantIDs[i] = Malformed)
          => sessions' = sessions]_vars

\* C12 witness: a CreateSession whose second participant ID is malformed,
\* the first being well-formed, was refused.
C12_Witness ==
    /\ ret.op = "CreateSession" /\ Len(ret.arg.participantIDs) = 2
    /\ ret.arg.participantIDs[1] # Malformed
    /\ ret.arg.participantIDs[2] = Malformed
    /\ ret.err = ErrInvalidParticipantID

\* C13 (as claimed): whatever the interleaving of concurrent Start and Stop
\* calls, once every call has returned the ParsVM is in the state some
\* serial order of the calls leaves it in, where the VM, its storage node
\* and its messenger are all running or all stopped; in particular ParsVM
\* running implies storage node running and messenger running.
C13_SerialOutcome ==
    (\A c \in Callers : life[c].pc = "idle") =>
        (p.running = n.running /\ p.running = m.running)

\* C17 (as claimed): whatever the interleaving of SendMessage or
\* ReceiveMessages with a concurrent Stop, Messenger.Send / Messenger.Receive
\* is never executed on a messenger that Stop has stopped.
C17_NoDeliveryOnStoppedMessenger ==
    \A c \in Callers :
        (life[c].op \in {"SendMessage", "ReceiveMessages"}
           /\ life[c].pc = "returning" /\ life[c].err = NIL)
            => ~life[c].onStopped

\* C14: an EVM and a ParsVM with the same Enabled flag, taken through the
\* same sequence of Start and Stop calls, report the same HealthStatus
\* after every call of the sequence, and each EVM call returns the error
\* outcome the same ParsVM call returned.
C14_SameLifecycleContract ==
    /\ [](ParsVMTurn => ParsVMHealth = EVMHealth)
    /\ [][(ret.op = "Start" /\ ret'.op = "EVM.Start") => ret'.err = ret.err]_vars
    /\ [][(ret.op = "Stop" /\ ret'.op = "EVM.Stop") => ret'.err = ret.err]_vars

\* Enabled VMs that were started (a message was accepted) and then stopped.
C14_Witness ==
    /\ ret.op = "EVM.Stop" /\ ret.err = NIL
    /\ p.cfg.Enabled /\ accepted # {}
    /\ ParsVMHealth = HealthStatus(FALSE, "not running")
    /\ EVMHealth = ParsVMHealth

\* C15 (as claimed): whenever setupPlugins returns nil, pluginDir holds an
\* entry named EVMID and an entry named SessionVMID, and every entry that
\* was there before the call is as it was.
C15_PluginsEnsured ==
    (plug.pc = "returned" /\ plug.err = NIL) =>
        /\ \A id \in PluginIDs : plug.dir[id] # "absent"
        /\ \A id \in PluginIDs :
              plug.before[id] # "absent" => plug.dir[id] = plug.before[id]

\* C16: on an enabled ParsVM a SendMessage or ReceiveMessages call is
\* delegated to the messenger (and returns the messenger's nil) exactly when
\* the most recent lifecycle call was a Start, and returns "ParsVM not
\* running" otherwise, whatever Start and Stop calls came earlier; Stop
\* returns nil whenever it is called, and so does Start.
C16_DelegatesIffLastCallWasStart ==
    /\ (p.cfg.Enabled /\ ret.op \in {"SendMessage", "ReceiveMessages"}) =>
          /\ lastLife = "Start" => ret.err = NIL
          /\ lastLife # "Start" => ret.err = ErrParsVMNotRunning
    /\ ret.op \in {"Start", "Stop"} => ret.err = NIL

\* C16 witness: an enabled VM that accepted a message, was stopped, and then
\* refused a SendMessage.
C16_Witness ==
    /\ p.cfg.Enabled /\ accepted # {} /\ lastLife = "Stop"
    /\ ret.op = "SendMessage" /\ ret.err = ErrParsVMNotRunning

\* C18: a running ParsVM has a storage node and a messenger (neither field
\* is nil); the running flag of the storage node or of the messenger is
\* written only through a non-nil field, and a SendMessage or
\* ReceiveMessages is delegated only to a non-nil messenger, on an enabled
\* and on a disabled VM alike.
C18_NoNilDereference ==
    /\ [](p.running => (p.storage # NIL /\ p.messenger # NIL))
    /\ []((ret.op \in {"SendMessage", "ReceiveMessages"} /\ ret.err = NIL)
            => p.messenger # NIL)
    /\ [][n' # n => p.storage # NIL]_vars
    /\ [][m' # m => p.messenger # NIL]_vars

\* C18 witness: a running VM, restarted after a Stop or not, whose messenger
\* took a delegated ReceiveMessages after a message had been accepted.
C18_Witness ==
    /\ p.running /\ p.storage # NIL /\ p.messenger # NIL
    /\ n.running /\ m.running /\ accepted # {}
    /\ ret.op = "ReceiveMessages" /\ ret.err = NIL

\* C19 (as claimed): every request that CreateSession or CreateSecureSession
\* passes to the session VM has as many public keys as participant IDs, and
\* the request of CreateSecureSession has two participants.
C19_OneKeyPerParticipant ==
    ret.op \in {"CreateSession", "CreateSecureSession"} =>
        \A request \in ret.request :
            /\ Len(request.participants) = Len(request.publicKeys)
            /\ ret.op = "CreateSecureSession" => Len(request.participants) = 2

\* C20 (as claimed): when parsd has exited after luxd was started, every
\* signal received since registration has led to exactly one SIGTERM sent
\* to luxd, luxd had exited before, and parsd's exit status is luxd's exit
\* code.
C20_SignalForwardedExitCodeKept ==
    (pd.pc = "exited" /\ pd.luxd # "notstarted") =>
        /\ pd.arrived > 0 => pd.termSent = 1
        /\ pd.luxd = "reaped"
        /\ pd.outcome.kind = "exit" /\ pd.exit = Some(pd.outcome.code)

\* C20 (amended): the first signal after registration stays in sigCh until
\* the goroutine takes it, also when it arrives before or while luxd is
\* started; while luxd runs, a received signal leads to a SIGTERM sent to
\* luxd unless luxd ends first; at most one SIGTERM is ever sent, and only
\* after a signal; parsd exits after a started luxd only once luxd has been
\* waited for, with luxd's exit code when luxd exited by itself and with
\* 255 when luxd was ended by a signal, hence with 0 only when luxd exited
\* with code 0.
C20_Supervision ==
    /\ []((pd.pc # "none" /\ pd.arrived > 0 /\ pd.goroutine \in {"none", "recv"})
            => pd.sigCh = SigChCap)
    /\ [](pd.pc # "none" => (pd.termSent <= 1 /\ (pd.termSent = 1 => pd.arrived > 0)))
    /\ []((pd.pc = "exited" /\ pd.luxd # "notstarted") =>
            /\ pd.luxd = "reaped"
            /\ pd.outcome.kind = "exit" => pd.exit = Some(pd.outcome.code)
            /\ pd.outcome.kind = "signal" => pd.exit = Some(255)
            /\ pd.exit = Some(0) => pd.outcome = [kind |-> "exit", code |-> 0])
    /\ (pd.pc # "none" /\ pd.arrived > 0 /\ pd.luxd = "running")
          ~> (pd.pc # "none" /\ (pd.termSent = 1 \/ pd.luxd # "running"))

\* C20 witness: a signal arrived before cmd.Start returned, luxd was sent
\* SIGTERM once, ended by it, and parsd exited with 255 after waiting.
C20_Witness ==
    /\ pd.pc = "exited" /\ pd.early /\ pd.termSent = 1
    /\ pd.luxd = "reaped" /\ pd.outcome.kind = "signal"
    /\ pd.exit = Some(255)

\* C3 (as claimed): a message for which ParsVM.SendMessage returned nil is
\* among the messages a later ReceiveMessages for its recipient returns, when
\* that call is made while the VM is running and before Timestamp + TTL.
C3_AcceptedMessageIsReceived ==
    (ret.op = "ReceiveMessages" /\ p.running) =>
        \A msg \in accepted :
            (msg.RecipientID = ret.arg /\ ret.at < msg.Timestamp + msg.TTL)
                => msg \in ret.val

\* C4 (as claimed): once CloseSession(id) has returned nil, every later
\* SendMessage on id fails with SessionClosed.
C4_SendAfterCloseIsSessionClosed ==
    (ret.op = "SessionSendMessage" /\ ret.arg.sessionID \in closedOK)
        => ret.err = ErrSessionClosed

\* C4 (amended): once CloseSession(id) has returned nil the session stays
\* Closed; every later SendMessage on id produces no message, failing with
\* SessionClosed when the sender ID is well-formed and with the
\* invalid-sender-ID error when it is not; every later CloseSession(id)
\* returns nil.
C4_ClosedIsTerminal ==
    /\ \A sid \in closedOK : sessions[sid] = "Closed"
    /\ (ret.op = "SessionSendMessage" /\ ret.arg.sessionID \in closedOK) =>
           /\ ret.val = None
           /\ ret.err = IF ret.arg.senderID = Malformed THEN ErrInvalidSenderID
                         ELSE ErrSessionClosed
    /\ (ret.op = "CloseSession" /\ ret.val) => ret.err = NIL

\* C4 witness: a SendMessage with a well-formed sender was refused on a
\* session that a CloseSession had closed.
C4_Witness ==
    /\ ret.op = "SessionSendMessage" /\ ret.arg.sessionID \in closedOK
    /\ ret.arg.senderID # Malformed /\ ret.err = ErrSessionClosed

\* C5: under any interleaving of concurrent CloseSession and SendMessage
\* calls, a SendMessage whose call of the VM comes after a CloseSession of
\* the same session has returned nil to some caller is not accepted: it
\* returns an error and no message.
C5_NoSendAcceptedAfterObservedClose ==
    \A c \in Callers :
        (calls[c].op = "SendMessage" /\ calls[c].pc = "returning"
           /\ calls[c].afterClose)
            => (calls[c].val = None /\ calls[c].err # NIL)

\* C5 witness: a SendMessage entered while no close of its session had been
\* observed, overtaken by a CloseSession that returned to another caller
\* before the SendMessage reached the VM, and refused with SessionClosed.
C5_Witness ==
    \E c \in Callers :
        /\ calls[c].op = "SendMessage" /\ calls[c].pc = "returning"
        /\ calls[c].beganBeforeClose /\ calls[c].afterClose
        /\ calls[c].err = ErrSessionClosed

\* C6: a ParsVM, and an EVM, constructed with Enabled = false reports
\* {Healthy: true, Message: "disabled"} in every reachable state.
C6_DisabledHealth ==
    /\ ~p.cfg.Enabled => ParsVMHealth = HealthStatus(TRUE, "disabled")
    /\ ~e.cfg.Enabled => EVMHealth = HealthStatus(TRUE, "disabled")

\* C6 witness: both VMs disabled, Start then Stop called on the ParsVM and
\* Start called on the EVM.
C6_Witness ==
    /\ ~p.cfg.Enabled /\ ~e.cfg.Enabled
    /\ lastLife = "Stop" /\ ret.op = "EVM.Start"

\* C7: an enabled ParsVM reports {Healthy: false, Message: "not running"}
\* exactly when the last lifecycle call to return was not a Start (none yet,
\* or a Stop), and so never while it is running.
C7_NotRunningHealth ==
    p.cfg.Enabled =>
        ((ParsVMHealth = HealthStatus(FALSE, "not running")) <=> (lastLife # "Start"))

\* C7 witness: an enabled VM that was started, accepted a message, and was
\* stopped again.
C7_Witness ==
    p.cfg.Enabled /\ lastLife = "Stop" /\ accepted # {} /\ ret.op = "Stop"

C9_DisabledGate ==
    ~p.cfg.Enabled =>
        /\ ~p.running
        /\ p.storage = NIL /\ ~n.running
        /\ p.messenger = NIL /\ ~m.running
        /\ ret.op \in {"SendMessage", "ReceiveMessages"}
               => ret.err = ErrParsVMNotRunning
        /\ accepted = {}

\* C9 witness: a disabled VM on which Start returned and then SendMessage
\* was called.
C9_Witness ==
    ~p.cfg.Enabled /\ lastLife = "Start" /\ ret.op = "SendMessage"

====
